---- MODULE Spec2Model ----
(***************************************************************************)
(* Model of snaptext: the OCR core (core/tool.py) with the multi-strategy *)
(* extract_text routine, its image transforms and the get_text_confidence *)
(* reporter; the /upload handler (server/server.py); and the command-line *)
(* tool (cli/cli.py).                                                      *)
(*                                                                         *)
(* Texts are sequences of one-character strings so that str.strip() and    *)
(* len() are computed, not assumed.  The OCR engine (pytesseract) and the  *)
(* decode layer (PIL.Image.open) are the environment: their replies are    *)
(* chosen nondeterministically from bounded sets.                          *)
(***************************************************************************)
EXTENDS Integers, Sequences, FiniteSets, TLC

VARIABLES
    pc,           \* position inside the running function
    fn,           \* which function is running: extract_text / get_text_confidence
    path,         \* what image_path points at: "missing", "invalid" or "image"
    results,      \* extract_text's local list of (method, text) pairs
    attempt,      \* per strategy, what the transform+engine call did
    engineCalls,  \* number of pytesseract calls made by the running function
    pending,      \* the exception travelling to the function's outer handler
    data,         \* image_to_data's reply inside get_text_confidence
    best_method,  \* extract_text's local best_method
    ret,          \* what the running function handed to its caller
    decoded,      \* the image Image.open returned, as it was when it was decoded
    original_img, \* the object bound to original_img / img, as it is now
    seen,         \* per strategy, the original as the strategy found it
    engine_input, \* per engine call site, the image handed to pytesseract
    \* server/server.py, one entry per /upload request
    spc,             \* position inside upload()
    request,         \* the multipart request: has a 'file' field, its filename, its bytes
    upload_path,     \* upload()'s local upload_path
    srv_text,        \* outcome of extract_text(upload_path)
    srv_confidence,  \* upload()'s local confidence_info
    srv_exc,         \* the exception caught by, or leaving, upload()
    response,        \* the HTTP response sent
    tmpfs,           \* the temporary directory: name -> file
    \* cli/cli.py, one run of main()
    cpc,             \* position inside main()
    argv,            \* what the command line looks like to argparse
    args,            \* the parsed arguments
    image_file,      \* what args.image_path points at
    cli_text,        \* outcome of extract_text(args.image_path)
    cli_confidence,  \* main()'s local confidence_info
    stdout,          \* what was printed to stdout
    stderr,          \* what was printed to stderr
    out_file,        \* the file at args.output
    exit_code        \* the process's exit status, -1 while running

\* the image objects of core/tool.py
imgVars == <<decoded, original_img, seen, engine_input>>

coreVars ==
    <<pc, fn, path, results, attempt, engineCalls, pending, data, best_method, ret, imgVars>>

serverVars == <<spc, request, upload_path, srv_text, srv_confidence, srv_exc, response, tmpfs>>

cliVars == <<cpc, argv, args, image_file, cli_text, cli_confidence, stdout, stderr, out_file, exit_code>>

\* everything outside core/tool.py
appVars == <<serverVars, cliVars>>

vars == <<coreVars, serverVars, cliVars>>

----------------------------------------------------------------------------
(* Bounds *)

MaxTextLen == 2      \* longest raw text the engine returns for one strategy
MaxTokens == 2       \* longest token list image_to_data returns (besides the regression list)
NumRequests == 2     \* number of /upload requests in flight
MaxSide == 2         \* longest side, in pixels, of a decoded image

----------------------------------------------------------------------------
(* Strings *)

Whitespace == {" ", "\n", "\t"}

Alphabet == {"a", "b", " "}

RECURSIVE SeqsUpTo(_, _)
SeqsUpTo(S, n) ==
    IF n = 0 THEN {<<>>}
    ELSE LET shorter == SeqsUpTo(S, n - 1)
         IN  shorter \cup {Append(s, c) : s \in {t \in shorter : Len(t) = n - 1}, c \in S}

RawTexts == SeqsUpTo(Alphabet, MaxTextLen)

\* the engine found no token: nothing but whitespace came back
IsBlank(s) == \A i \in 1..Len(s) : s[i] \in Whitespace

RECURSIVE lstrip(_)
lstrip(s) == IF s # <<>> /\ s[1] \in Whitespace THEN lstrip(Tail(s)) ELSE s

RECURSIVE rstrip(_)
rstrip(s) ==
    IF s # <<>> /\ s[Len(s)] \in Whitespace THEN rstrip(SubSeq(s, 1, Len(s) - 1)) ELSE s

\* a plausible slip: the engine's text is used untrimmed
stripNothing(s) == s

\* str.strip()
strip(s) == rstrip(lstrip(s))

----------------------------------------------------------------------------
(* Exceptions and return values *)

NoException == [type |-> "none", msg |-> <<>>]

NoReturn == [kind |-> "none"]

Returned(v) == [kind |-> "return", value |-> v]

Raised(e) == [kind |-> "raise", exc |-> e]

\* str(e)
str(e) == e.msg

Paths == {"missing", "invalid", "image"}

\* PIL.Image.open(image_path): the decode layer
ImageOpen(p) ==
    CASE p = "missing" -> [ok |-> FALSE,
                           exc |-> [type |-> "FileNotFoundError", msg |-> <<"No such file or directory">>]]
      [] p = "invalid" -> [ok |-> FALSE,
                           exc |-> [type |-> "UnidentifiedImageError", msg |-> <<"cannot identify image file">>]]
      [] OTHER         -> [ok |-> TRUE, exc |-> NoException]

TransformError == [type |-> "OSError", msg |-> <<"transform failed">>]

EngineError == [type |-> "TesseractError", msg |-> <<"Tesseract failed">>]

\* raised without arguments by the imaging library when an allocation fails: str(e) is ''
MemoryError == [type |-> "MemoryError", msg |-> <<>>]

----------------------------------------------------------------------------
(* Images *)

(* A PIL image is its colour mode, its size and its pixel content; the     *)
(* content is named by the operations that produced it from the decoded    *)
(* pixels.  Every PIL call is described by what it returns (result) and by *)
(* what it leaves in the object it was called on (self).                   *)

Modes == {"L", "RGB", "RGBA"}

Sizes == {<<w, MaxSide + 1 - w>> : w \in 1..MaxSide}

\* what Image.open can return for a decodable file
Images == {[mode |-> m, size |-> sz, ops |-> <<>>] : m \in Modes, sz \in Sizes}

\* the images extract_text is run on: every mode, both orientations and a square
SampleImages ==
    {[mode |-> "L", size |-> <<1, MaxSide>>, ops |-> <<>>],
     [mode |-> "RGB", size |-> <<MaxSide, 1>>, ops |-> <<>>],
     [mode |-> "RGBA", size |-> <<MaxSide, MaxSide>>, ops |-> <<>>]}

NoImage == [mode |-> "none", size |-> <<0, 0>>, ops |-> <<>>]

\* Image.copy()
Copy(image) == [result |-> image, self |-> image]

\* Image.convert(mode)
Convert(image, mode) ==
    [result |-> [image EXCEPT !.mode = mode, !.ops = Append(@, "convert")], self |-> image]

\* ImageEnhance.Contrast(image).enhance(1.5) / ImageEnhance.Sharpness(image).enhance(2.0)
Enhance(image, what) == [result |-> [image EXCEPT !.ops = Append(@, what)], self |-> image]

\* Image.filter(ImageFilter.UnsharpMask(...))
Filter(image) == [result |-> [image EXCEPT !.ops = Append(@, "unsharp")], self |-> image]

\* a plausible slip: the image is scaled where it is, as Image.thumbnail does
ResizeInPlace(image, size) ==
    LET scaled == [image EXCEPT !.size = size, !.ops = Append(@, "resize")]
    IN  [result |-> scaled, self |-> scaled]

\* Image.resize(size, Image.LANCZOS)
Resize(image, size) ==
    [result |-> [image EXCEPT !.size = size, !.ops = Append(@, "resize")], self |-> image]

\* a plausible slip: the conversion to grayscale is missing
enhance_image_pil_keep_mode(image) ==
    LET contrast == Enhance(image, "contrast")
        sharp == Enhance(contrast.result, "sharpness")
    IN  [result |-> Filter(sharp.result).result, self |-> contrast.self]

\* enhance_image_pil(image): "image" is rebound at every step, so the object
\* passed in is only ever the receiver of the first call made on it
enhance_image_pil(image) ==
    LET gray == IF image.mode # "L" THEN Convert(image, "L") ELSE [result |-> image, self |-> image]
        contrast == Enhance(gray.result, "contrast")
        sharp == Enhance(contrast.result, "sharpness")
    IN  [result |-> Filter(sharp.result).result,
         self |-> IF image.mode # "L" THEN gray.self ELSE contrast.self]

\* preprocess_image(image): np.array(image) reads the pixels, Image.fromarray
\* builds a new 8-bit single-channel image from the cleaned array
preprocess_image(image) ==
    [result |-> [mode |-> "L", size |-> image.size, ops |-> Append(image.ops, "opencv")],
     self |-> image]

\* "scale_factor = 2"
scale_factor == 2

\* a plausible slip: only the width is scaled
UpscaleWidthOnly(image, factor) == Resize(image, <<image.size[1] * factor, image.size[2]>>)

\* "width, height = original_img.size;
\*  original_img.resize((width * scale_factor, height * scale_factor), Image.LANCZOS)"
Upscale(image, factor) == Resize(image, <<image.size[1] * factor, image.size[2] * factor>>)

\* what strategy i builds from original_img: the image handed to the engine
\* (engine) and what the call leaves in original_img (self)
Transform(i, orig) ==
    CASE i = 2 -> [engine |-> preprocess_image(Copy(orig).result).result, self |-> Copy(orig).self]
      [] i = 3 -> [engine |-> enhance_image_pil(Upscale(orig, scale_factor).result).result,
                   self |-> Upscale(orig, scale_factor).self]
      [] OTHER -> [engine |-> enhance_image_pil(Copy(orig).result).result, self |-> Copy(orig).self]

----------------------------------------------------------------------------
(* extract_text *)

MethodNames == <<"Enhanced PIL", "OpenCV Preprocessed", "Scaled", "PSM 8">>

NumMethods == Len(MethodNames)

MethodPc(i) == IF i > NumMethods THEN "select" ELSE <<"method1", "method2", "method3", "method4">>[i]

\* a plausible slip: a strategy's exception escapes to the outer handler
StrategyExceptPropagate(i) == "except"

\* the per-strategy "except Exception" clause: log and fall through to the next block
StrategyExceptNext(i) == MethodPc(i + 1)

\* a plausible slip: the entry is appended whatever the text
AppendAlways(res, name, text) == Append(res, <<name, text>>)

\* "if textN: results.append((name, textN))"
AppendIfText(res, name, text) == IF text # <<>> THEN Append(res, <<name, text>>) ELSE res

RECURSIVE MaxLastIter(_, _, _)
MaxLastIter(s, i, best) ==
    IF i > Len(s) THEN best
    ELSE MaxLastIter(s, i + 1, IF Len(s[i][2]) >= Len(best[2]) THEN s[i] ELSE best)

\* a plausible slip: the last of the longest entries wins
PyMaxLast(s) == MaxLastIter(s, 2, s[1])

\* a plausible slip: the first entry wins whatever its length
PyMaxFirst(s) == s[1]

RECURSIVE MaxIter(_, _, _)
MaxIter(s, i, best) ==
    IF i > Len(s) THEN best
    ELSE MaxIter(s, i + 1, IF Len(s[i][2]) > Len(best[2]) THEN s[i] ELSE best)

\* max(results, key=lambda x: len(x[1])): the first entry whose key is maximal
PyMax(s) == MaxIter(s, 2, s[1])

FailedPrefix == "Failed to extract text: "

\* a plausible slip: the outer handler swallows the error and reports "no text"
ExtractTextExceptSwallow(e) == Returned(<<>>)

\* a plausible slip: the outer handler lets the error through as it is
ExtractTextExceptReraise(e) == Raised(e)

\* "except Exception as e: raise Exception(f'Failed to extract text: {str(e)}')"
ExtractTextExcept(e) == Raised([type |-> "Exception", msg |-> <<FailedPrefix>> \o str(e)])

CallExtractText ==
    /\ pc = "idle"
    /\ \E p \in Paths : path' = p
    /\ fn' = "extract_text"
    /\ pc' = "open"
    /\ UNCHANGED <<results, attempt, engineCalls, pending, data, best_method, ret>>
    /\ UNCHANGED imgVars
    /\ UNCHANGED appVars

ExtractOpen ==
    /\ pc = "open" /\ fn = "extract_text"
    /\ IF ImageOpen(path).ok
       THEN /\ pc' = MethodPc(1)
            /\ results' = <<>>
            /\ \E im \in SampleImages : decoded' = im /\ original_img' = im
            /\ UNCHANGED pending
       ELSE /\ pc' = "except"
            /\ pending' = ImageOpen(path).exc
            /\ UNCHANGED <<results, decoded, original_img>>
    /\ UNCHANGED <<fn, path, attempt, engineCalls, data, best_method, ret, seen, engine_input>>
    /\ UNCHANGED appVars

\* One strategy block: transform, engine call, strip, conditional append,
\* with the block's own except clause.
RunStrategy(i) ==
    /\ pc = MethodPc(i) /\ fn = "extract_text"
    /\ seen' = Append(seen, original_img)
    /\ original_img' = Transform(i, original_img).self
    /\ \/ \* the transform (copy / enhance / preprocess / resize) raises
          /\ attempt' = Append(attempt, "transform_raised")
          /\ engine_input' = Append(engine_input, NoImage)
          /\ pc' = StrategyExceptNext(i)
          /\ pending' = IF pc' = "except" THEN TransformError ELSE pending
          /\ UNCHANGED <<results, engineCalls>>
       \/ \* pytesseract.image_to_string raises
          /\ attempt' = Append(attempt, "engine_raised")
          /\ engine_input' = Append(engine_input, Transform(i, original_img).engine)
          /\ engineCalls' = engineCalls + 1
          /\ pc' = StrategyExceptNext(i)
          /\ pending' = IF pc' = "except" THEN EngineError ELSE pending
          /\ UNCHANGED results
       \/ \* pytesseract.image_to_string returns raw text
          \E raw \in RawTexts :
            LET text == strip(raw) IN
            /\ attempt' = Append(attempt, IF IsBlank(raw) THEN "empty" ELSE "text")
            /\ engine_input' = Append(engine_input, Transform(i, original_img).engine)
            /\ engineCalls' = engineCalls + 1
            /\ results' = AppendIfText(results, MethodNames[i], text)
            /\ pc' = MethodPc(i + 1)
            /\ UNCHANGED pending
    /\ UNCHANGED <<fn, path, data, best_method, ret, decoded>>
    /\ UNCHANGED appVars

Method1 == RunStrategy(1)

Method2 == RunStrategy(2)

Method3 == RunStrategy(3)

Method4 == RunStrategy(4)

ExtractSelect ==
    /\ pc = "select" /\ fn = "extract_text"
    /\ IF results = <<>>
       THEN /\ ret' = Returned(<<>>)
            /\ UNCHANGED best_method
       ELSE /\ best_method' = PyMax(results)[1]
            /\ ret' = Returned(PyMax(results)[2])
    /\ pc' = "done"
    /\ UNCHANGED <<fn, path, results, attempt, engineCalls, pending, data>>
    /\ UNCHANGED imgVars
    /\ UNCHANGED appVars

ExtractExcept ==
    /\ pc = "except" /\ fn = "extract_text"
    /\ ret' = ExtractTextExcept(pending)
    /\ pc' = "done"
    /\ UNCHANGED <<fn, path, results, attempt, engineCalls, pending, data, best_method>>
    /\ UNCHANGED imgVars
    /\ UNCHANGED appVars

----------------------------------------------------------------------------
(* get_text_confidence *)

Digits == {"0", "1", "2", "3", "4", "5", "6", "7", "8", "9"}

DigitVal(c) ==
    CASE c = "0" -> 0 [] c = "1" -> 1 [] c = "2" -> 2 [] c = "3" -> 3 [] c = "4" -> 4
      [] c = "5" -> 5 [] c = "6" -> 6 [] c = "7" -> 7 [] c = "8" -> 8 [] c = "9" -> 9

RECURSIVE DigitsValue(_)
DigitsValue(s) ==
    IF s = <<>> THEN 0
    ELSE DigitsValue(SubSeq(s, 1, Len(s) - 1)) * 10 + DigitVal(s[Len(s)])

Unsigned(s) == IF s # <<>> /\ s[1] \in {"-", "+"} THEN Tail(s) ELSE s

\* does int(s) accept the string s
IsIntLiteral(s) == Unsigned(s) # <<>> /\ \A i \in 1..Len(Unsigned(s)) : Unsigned(s)[i] \in Digits

\* int(s) for a string s that int() accepts
PyInt(s) == IF s[1] = "-" THEN 0 - DigitsValue(Unsigned(s)) ELSE DigitsValue(Unsigned(s))

ValueError == [type |-> "ValueError", msg |-> <<"invalid literal for int()">>]

RECURSIVE SumSeq(_)
SumSeq(s) == IF s = <<>> THEN 0 ELSE s[1] + SumSeq(Tail(s))

RECURSIVE FilterPositive(_)
FilterPositive(cs) ==
    IF cs = <<>> THEN <<>>
    ELSE IF PyInt(cs[1]) > 0 THEN <<PyInt(cs[1])>> \o FilterPositive(Tail(cs))
         ELSE FilterPositive(Tail(cs))

RECURSIVE AllInts(_)
AllInts(cs) == IF cs = <<>> THEN <<>> ELSE <<PyInt(cs[1])>> \o AllInts(Tail(cs))

\* a plausible slip: the "if int(conf) > 0" filter is missing
ConfidencesUnfiltered(d) == AllInts(d.conf)

\* "confidences = [int(conf) for conf in data['conf'] if int(conf) > 0]"
Confidences(d) == FilterPositive(d.conf)

\* "sum(confidences) / len(confidences) if confidences else 0", kept as an exact fraction
AvgConfidence(cs) ==
    IF cs # <<>> THEN [num |-> SumSeq(cs), den |-> Len(cs)] ELSE [num |-> 0, den |-> 1]

\* a plausible slip: words are counted over the confidence-filtered tokens
WordCountFiltered(d) ==
    Cardinality({i \in 1..Len(d.text) : strip(d.text[i]) # <<>> /\ PyInt(d.conf[i]) > 0})

\* "len([word for word in data['text'] if word.strip()])"
WordCount(d) == Cardinality({i \in 1..Len(d.text) : strip(d.text[i]) # <<>>})

\* the cutoff in "conf < 60"
LowConfidenceCutoff == 60

\* a plausible slip: "<=" for "<"
LowConfidenceWordsInclusive(cs) == Cardinality({i \in 1..Len(cs) : cs[i] <= LowConfidenceCutoff})

\* "len([conf for conf in confidences if conf < 60])"
LowConfidenceWords(cs) == Cardinality({i \in 1..Len(cs) : cs[i] < LowConfidenceCutoff})

\* the dict returned on the normal path
Report(d) ==
    [average_confidence |-> AvgConfidence(Confidences(d)),
     word_count |-> WordCount(d),
     low_confidence_words |-> LowConfidenceWords(Confidences(d))]

\* a plausible slip: the reporter lets the error through
GetTextConfidenceExceptRaise(e) == Raised(e)

\* "except Exception as e: return {'error': str(e)}"
GetTextConfidenceExcept(e) == Returned([error |-> str(e)])

ConfSamples == {<<"-", "1">>, <<"0">>, <<"5", "9">>, <<"6", "0">>, <<"9", "5">>, <<"x">>}

TextSamples == {<<>>, <<" ">>, <<"a">>}

\* the reply mocked in test_get_confidence_mock_data
RegressionData ==
    [conf |-> << <<"9", "5">>, <<"8", "7">>, <<"9", "2">>, <<"7", "8">>, <<"0">>, <<"8", "8">> >>,
     text |-> << <<"H", "e", "l", "l", "o">>, <<"W", "o", "r", "l", "d">>, <<"T", "e", "s", "t">>,
                 <<"T", "e", "x", "t">>, <<>>, <<"O", "C", "R">> >>]

\* image_to_data(..., output_type=DICT): parallel 'conf' and 'text' lists
DataReplies ==
    {[conf |-> ct[1], text |-> ct[2]] :
        ct \in {x \in SeqsUpTo(ConfSamples, MaxTokens) \X SeqsUpTo(TextSamples, MaxTokens) :
                    Len(x[1]) = Len(x[2])}}
    \cup {RegressionData}

CallGetTextConfidence ==
    /\ pc = "idle"
    /\ \E p \in Paths : path' = p
    /\ fn' = "get_text_confidence"
    /\ pc' = "open"
    /\ UNCHANGED <<results, attempt, engineCalls, pending, data, best_method, ret>>
    /\ UNCHANGED imgVars
    /\ UNCHANGED appVars

ConfOpen ==
    /\ pc = "open" /\ fn = "get_text_confidence"
    /\ IF ImageOpen(path).ok
       THEN /\ pc' = "enhance"
            /\ \E im \in Images : decoded' = im /\ original_img' = im
            /\ UNCHANGED pending
       ELSE /\ pc' = "except"
            /\ pending' = ImageOpen(path).exc
            /\ UNCHANGED <<decoded, original_img>>
    /\ UNCHANGED <<fn, path, results, attempt, engineCalls, data, best_method, ret, seen, engine_input>>
    /\ UNCHANGED appVars

ConfEnhance ==
    /\ pc = "enhance" /\ fn = "get_text_confidence"
    /\ original_img' = enhance_image_pil(original_img).self
    /\ \/ /\ pc' = "image_to_data"
          /\ engine_input' = <<enhance_image_pil(original_img).result>>
          /\ UNCHANGED pending
       \/ /\ pc' = "except"
          /\ \E e \in {TransformError, MemoryError} : pending' = e
          /\ UNCHANGED engine_input
    /\ UNCHANGED <<fn, path, results, attempt, engineCalls, data, best_method, ret, decoded, seen>>
    /\ UNCHANGED appVars

ConfImageToData ==
    /\ pc = "image_to_data" /\ fn = "get_text_confidence"
    /\ engineCalls' = engineCalls + 1
    /\ \/ /\ \E d \in DataReplies : data' = d
          /\ pc' = "compute"
          /\ UNCHANGED pending
       \/ /\ pc' = "except"
          /\ pending' = EngineError
          /\ UNCHANGED data
    /\ UNCHANGED <<fn, path, results, attempt, best_method, ret>>
    /\ UNCHANGED imgVars
    /\ UNCHANGED appVars

ConfCompute ==
    /\ pc = "compute" /\ fn = "get_text_confidence"
    /\ IF \A i \in 1..Len(data.conf) : IsIntLiteral(data.conf[i])
       THEN /\ ret' = Returned(Report(data))
            /\ pc' = "done"
            /\ UNCHANGED pending
       ELSE /\ pc' = "except"
            /\ pending' = ValueError
            /\ UNCHANGED ret
    /\ UNCHANGED <<fn, path, results, attempt, engineCalls, data, best_method>>
    /\ UNCHANGED imgVars
    /\ UNCHANGED appVars

ConfExcept ==
    /\ pc = "except" /\ fn = "get_text_confidence"
    /\ ret' = GetTextConfidenceExcept(pending)
    /\ pc' = "done"
    /\ UNCHANGED <<fn, path, results, attempt, engineCalls, pending, data, best_method>>
    /\ UNCHANGED imgVars
    /\ UNCHANGED appVars

----------------------------------------------------------------------------
(* server/server.py: POST /upload *)

Reqs == 1..NumRequests

\* names tempfile can hand out; never more than one live file per request
TmpNames == 1..NumRequests

\* file contents: client r's own image, bytes that are not an image, nothing yet
ImageOf(r) == [kind |-> "image", id |-> r]

Garbage == [kind |-> "garbage", id |-> 0]

Empty == [kind |-> "empty", id |-> 0]

\* the bytes client r may upload
Contents(r) == {ImageOf(r), Garbage}

Filenames == {"", "scan.png"}

NoRequest == [has_file |-> FALSE, filename |-> "", content |-> Empty]

NoResponse == [status |-> 0, body |-> [none |-> TRUE]]

\* what Image.open makes of the file at upload_path
FileKind(fs, n) ==
    IF n \notin DOMAIN fs THEN "missing"
    ELSE IF fs[n].content.kind # "image" THEN "invalid"
    ELSE "image"

\* what the OCR engine reads in an image: every client's image shows its own text
TextOf(c) == <<"t", c.id>>

\* extract_text(upload_path) as upload() sees it: it raises when the file does
\* not decode, and returns the text of the file's image otherwise
ExtractOutcome(fs, n) ==
    IF ImageOpen(FileKind(fs, n)).ok
    THEN Returned(TextOf(fs[n].content))
    ELSE ExtractTextExcept(ImageOpen(FileKind(fs, n)).exc)

\* a report get_text_confidence gives for an image it can read
SampleReport == Report(RegressionData)

\* the report get_text_confidence gives when the engine fails
EngineErrorReport == GetTextConfidenceExcept(EngineError).value

\* get_text_confidence(upload_path) as upload() sees it: always a dict
ConfidenceOutcomes(fs, n) ==
    IF ImageOpen(FileKind(fs, n)).ok
    THEN {EngineErrorReport, SampleReport}
    ELSE {GetTextConfidenceExcept(ImageOpen(FileKind(fs, n)).exc).value}

\* a plausible slip: a fixed or guessable name, whether or not it is taken
AnyNames(fs) == TmpNames

\* tempfile.NamedTemporaryFile creates a file under a name not in use
FreshNames(fs) == TmpNames \ DOMAIN fs

\* os.remove(n)
RemoveFile(fs, n) == [m \in DOMAIN fs \ {n} |-> fs[m]]

OSError == [type |-> "OSError", msg |-> <<"Operation not permitted">>]

\* 'return {"error": ...}, 400'
BadRequest(msg) == [status |-> 400, body |-> [error |-> <<msg>>]]

\* a plausible slip: an error-marked report turns the upload into a failure
SuccessUnlessReportError(t, c, name) ==
    IF "error" \in DOMAIN c
    THEN [status |-> 500, body |-> [error |-> c.error]]
    ELSE [status |-> 200, body |-> [text |-> t, confidence |-> c, filename |-> name]]

\* 'return {"text": text, "confidence": confidence_info, "filename": file.filename}'
Success(t, c, name) == [status |-> 200, body |-> [text |-> t, confidence |-> c, filename |-> name]]

\* a plausible slip: the failure is reported with the default status
ExtractFailedOk(e) == [status |-> 200, body |-> [error |-> <<FailedPrefix>> \o str(e)]]

\* 'return {"error": f"Failed to extract text: {str(e)}"}, 500'
ExtractFailed(e) == [status |-> 500, body |-> [error |-> <<FailedPrefix>> \o str(e)]]

\* the framework's answer when an exception leaves the view function
InternalServerError == [status |-> 500, body |-> [html |-> "Internal Server Error"]]

\* upload() ends for request r: the response goes out and the locals are gone
Finish(r, resp) ==
    /\ response' = [response EXCEPT ![r] = resp]
    /\ spc' = [spc EXCEPT ![r] = "done"]
    /\ upload_path' = [upload_path EXCEPT ![r] = 0]
    /\ srv_text' = [srv_text EXCEPT ![r] = NoReturn]
    /\ srv_confidence' = [srv_confidence EXCEPT ![r] = [none |-> TRUE]]
    /\ srv_exc' = [srv_exc EXCEPT ![r] = NoException]

\* lines 31-42: the request arrives and is validated
Upload(r) ==
    /\ spc[r] = "idle"
    /\ \E has \in BOOLEAN, name \in Filenames, c \in Contents(r) :
        LET rq == IF has THEN [has_file |-> TRUE, filename |-> name, content |-> c]
                  ELSE NoRequest
        IN  /\ request' = [request EXCEPT ![r] = rq]
            /\ IF ~rq.has_file
               THEN Finish(r, BadRequest("No file uploaded"))
               ELSE IF rq.filename = ""
               THEN Finish(r, BadRequest("Empty filename"))
               ELSE /\ spc' = [spc EXCEPT ![r] = "mktemp"]
                    /\ UNCHANGED <<response, upload_path, srv_text, srv_confidence, srv_exc>>
    /\ UNCHANGED tmpfs
    /\ UNCHANGED <<coreVars, cliVars>>

\* lines 44-47: NamedTemporaryFile(delete=False, ...) and upload_path = tmp_file.name
MkTemp(r) ==
    /\ spc[r] = "mktemp"
    /\ \/ \E n \in FreshNames(tmpfs) :
            /\ tmpfs' = (n :> [owner |-> r, content |-> Empty]) @@ tmpfs
            /\ upload_path' = [upload_path EXCEPT ![r] = n]
            /\ spc' = [spc EXCEPT ![r] = "save"]
            /\ UNCHANGED srv_exc
       \/ \* the temporary directory refuses the file
          /\ srv_exc' = [srv_exc EXCEPT ![r] = OSError]
          /\ spc' = [spc EXCEPT ![r] = "unhandled"]
          /\ UNCHANGED <<tmpfs, upload_path>>
    /\ UNCHANGED <<request, srv_text, srv_confidence, response>>
    /\ UNCHANGED <<coreVars, cliVars>>

\* line 48: file.save(upload_path), outside the try block
Save(r) ==
    /\ spc[r] = "save"
    /\ \/ /\ tmpfs' = (upload_path[r] :>
                        [owner |-> IF upload_path[r] \in DOMAIN tmpfs
                                   THEN tmpfs[upload_path[r]].owner ELSE r,
                         content |-> request[r].content]) @@ tmpfs
          /\ spc' = [spc EXCEPT ![r] = "extract"]
          /\ UNCHANGED srv_exc
       \/ \* writing fails (disk full, ...): the exception leaves upload()
          /\ srv_exc' = [srv_exc EXCEPT ![r] = OSError]
          /\ spc' = [spc EXCEPT ![r] = "unhandled"]
          /\ UNCHANGED tmpfs
    /\ UNCHANGED <<request, upload_path, srv_text, srv_confidence, response>>
    /\ UNCHANGED <<coreVars, cliVars>>

\* line 51: text = extract_text(upload_path)
Extract(r) ==
    /\ spc[r] = "extract"
    /\ LET out == ExtractOutcome(tmpfs, upload_path[r]) IN
        /\ srv_text' = [srv_text EXCEPT ![r] = out]
        /\ IF out.kind = "raise"
           THEN /\ srv_exc' = [srv_exc EXCEPT ![r] = out.exc]
                /\ spc' = [spc EXCEPT ![r] = "except"]
           ELSE /\ spc' = [spc EXCEPT ![r] = "confidence"]
                /\ UNCHANGED srv_exc
    /\ UNCHANGED <<request, upload_path, srv_confidence, response, tmpfs>>
    /\ UNCHANGED <<coreVars, cliVars>>

\* lines 52-54: confidence_info = get_text_confidence(upload_path)
Confidence(r) ==
    /\ spc[r] = "confidence"
    /\ \E c \in ConfidenceOutcomes(tmpfs, upload_path[r]) :
        srv_confidence' = [srv_confidence EXCEPT ![r] = c]
    /\ spc' = [spc EXCEPT ![r] = "remove"]
    /\ UNCHANGED <<request, upload_path, srv_text, srv_exc, response, tmpfs>>
    /\ UNCHANGED <<coreVars, cliVars>>

\* lines 56-58: os.remove(upload_path) and the 200 response
Remove(r) ==
    /\ spc[r] = "remove"
    /\ \/ /\ upload_path[r] \in DOMAIN tmpfs
          /\ tmpfs' = RemoveFile(tmpfs, upload_path[r])
          /\ Finish(r, Success(srv_text[r].value, srv_confidence[r], request[r].filename))
       \/ \* os.remove raises: caught by the except clause
          /\ srv_exc' = [srv_exc EXCEPT ![r] = OSError]
          /\ spc' = [spc EXCEPT ![r] = "except"]
          /\ UNCHANGED <<tmpfs, response, upload_path, srv_text, srv_confidence>>
    /\ UNCHANGED request
    /\ UNCHANGED <<coreVars, cliVars>>

\* lines 59-63: the except clause
Except(r) ==
    /\ spc[r] = "except"
    /\ \/ \* the file is there and os.remove succeeds, or the file is not there
          /\ tmpfs' = RemoveFile(tmpfs, upload_path[r])
          /\ Finish(r, ExtractFailed(srv_exc[r]))
       \/ \* the file is there and os.remove raises: the exception leaves upload()
          /\ upload_path[r] \in DOMAIN tmpfs
          /\ srv_exc' = [srv_exc EXCEPT ![r] = OSError]
          /\ spc' = [spc EXCEPT ![r] = "unhandled"]
          /\ UNCHANGED <<tmpfs, response, upload_path, srv_text, srv_confidence>>
    /\ UNCHANGED request
    /\ UNCHANGED <<coreVars, cliVars>>

\* an exception left upload(): the framework answers for it
Unhandled(r) ==
    /\ spc[r] = "unhandled"
    /\ Finish(r, InternalServerError)
    /\ UNCHANGED <<request, tmpfs>>
    /\ UNCHANGED <<coreVars, cliVars>>

\* one step of the thread serving request r
Handle(r) ==
    \/ Upload(r)
    \/ MkTemp(r)
    \/ Save(r)
    \/ Extract(r)
    \/ Confidence(r)
    \/ Remove(r)
    \/ Except(r)
    \/ Unhandled(r)

ServerIdle ==
    /\ spc = [r \in Reqs |-> "idle"]
    /\ request = [r \in Reqs |-> NoRequest]
    /\ upload_path = [r \in Reqs |-> 0]
    /\ srv_text = [r \in Reqs |-> NoReturn]
    /\ srv_confidence = [r \in Reqs |-> [none |-> TRUE]]
    /\ srv_exc = [r \in Reqs |-> NoException]
    /\ response = [r \in Reqs |-> NoResponse]
    /\ tmpfs = <<>>

----------------------------------------------------------------------------
(* cli/cli.py: main() *)

\* command lines: one argparse rejects, --version, and well-formed ones
ArgvKinds == {"bad", "version", "ok"}

OutputPaths == {"", "out.txt", "/invalid/path/output.txt"}

\* can open(output_path, "w") succeed
Writable(p) == p = "out.txt"

ImageFiles == {"missing", "unreadable", "invalid", "image"}

NoArgs == [output |-> "", verbose |-> FALSE, confidence |-> FALSE]

NoFile == [exists |-> FALSE, content |-> <<>>]

\* the texts extract_text may find in the image
CliTexts == {<<>>, <<"a">>}

\* one printed line, made of its parts; the extracted text is printed as it is
Line(s) == <<s>>

HighData == [conf |-> << <<"9", "5">> >>, text |-> << <<"a">> >>]

MediumData == [conf |-> << <<"6", "0">> >>, text |-> << <<"a">> >>]

LowData == [conf |-> << <<"5", "9">> >>, text |-> << <<"a">> >>]

\* average exactly 80
HighEdgeData == [conf |-> << <<"8", "0">> >>, text |-> << <<"a">> >>]

\* average 79.5
MediumTopData == [conf |-> << <<"8", "0">>, <<"7", "9">> >>, text |-> << <<"a">>, <<"b">> >>]

\* average 59.5
LowTopData == [conf |-> << <<"6", "0">>, <<"5", "9">> >>, text |-> << <<"a">>, <<"b">> >>]

\* average above 80 with one word under the reporter's cutoff
HighWithLowWordData ==
    [conf |-> << <<"9", "9">>, <<"9", "9">>, <<"5", "9">> >>, text |-> << <<"a">>, <<"b">>, <<"c">> >>]

\* no token with positive confidence: the average is 0
ZeroData == [conf |-> << <<"0">> >>, text |-> << <<>> >>]

\* the report for an exception whose message is empty
EmptyErrorReport == GetTextConfidenceExcept(MemoryError).value

CliDataSamples ==
    {HighData, MediumData, LowData, HighEdgeData, MediumTopData, LowTopData,
     HighWithLowWordData, ZeroData}

\* what get_text_confidence may hand to main(): always a dict
CliReports == {EngineErrorReport, EmptyErrorReport} \cup {Report(d) : d \in CliDataSamples}

\* dict.get(key, default)
Get(info, key, default) == IF key \in DOMAIN info THEN info[key] ELSE default

\* confidence_info.get("error"), as a truth value
HasError(info) == "error" \in DOMAIN info /\ info.error # <<>>

\* "if avg_conf >= 80 ... elif avg_conf >= 60 ... else"
\* a plausible slip: ">" for ">="
QualityTierExclusive(avg) ==
    IF avg.num > 80 * avg.den THEN "Quality: High"
    ELSE IF avg.num > 60 * avg.den THEN "Quality: Medium"
    ELSE "Quality: Low"

\* "if avg_conf >= 80 ... elif avg_conf >= 60 ... else"
QualityTier(avg) ==
    IF avg.num >= 80 * avg.den THEN "Quality: High"
    ELSE IF avg.num >= 60 * avg.den THEN "Quality: Medium"
    ELSE "Quality: Low"

\* lines 70-86: the quality block, read from the dict with .get(key, 0)
QualityBlock(info) ==
    <<Line("OCR Quality Information"), Line("Average confidence"), Line("Words detected")>>
    \o (IF Get(info, "low_confidence_words", 0) > 0 THEN <<Line("Low confidence words")>> ELSE <<>>)
    \o <<Line(QualityTier(Get(info, "average_confidence", [num |-> 0, den |-> 1])))>>

\* a plausible slip: the file is opened for writing and nothing is written
WriteNothing(t) == [exists |-> TRUE, content |-> <<>>]

\* 'with open(output_path, "w", encoding="utf-8") as f: f.write(text)'
WriteText(t) == [exists |-> TRUE, content |-> t]

\* a plausible slip: the error is reported but the status is left at 0
ProcessingErrorZero(e) == [stderr |-> "Error processing image", code |-> 0]

\* lines 109-111: 'except Exception as e: print(..., file=sys.stderr); sys.exit(1)'
ProcessingError(e) == [stderr |-> "Error processing image", code |-> 1]

Exit(code) ==
    /\ exit_code' = code
    /\ cpc' = "exited"

\* lines 15-44: parser.parse_args()
CliParse ==
    /\ cpc = "start"
    /\ \E k \in ArgvKinds, o \in OutputPaths, v \in BOOLEAN, c \in BOOLEAN, f \in ImageFiles :
        /\ argv' = k
        /\ IF k = "bad"
           THEN /\ stderr' = Append(stderr, "usage")
                /\ Exit(2)
                /\ UNCHANGED <<args, image_file, stdout>>
           ELSE IF k = "version"
           THEN /\ stdout' = Append(stdout, Line("SnapText CLI 1.0.0"))
                /\ Exit(0)
                /\ UNCHANGED <<args, image_file, stderr>>
           ELSE /\ args' = [output |-> o, verbose |-> v, confidence |-> c]
                /\ image_file' = f
                /\ cpc' = "check"
                /\ UNCHANGED <<stdout, stderr, exit_code>>
    /\ UNCHANGED <<cli_text, cli_confidence, out_file>>
    /\ UNCHANGED <<coreVars, serverVars>>

\* lines 46-57: the existence and readability checks
CliCheck ==
    /\ cpc = "check"
    /\ IF image_file = "missing"
       THEN /\ stderr' = Append(stderr, "not found")
            /\ Exit(1)
            /\ UNCHANGED stdout
       ELSE IF image_file = "unreadable"
       THEN /\ stderr' = Append(stderr, "Cannot read image file")
            /\ Exit(1)
            /\ UNCHANGED stdout
       ELSE /\ stdout' = IF args.verbose THEN Append(stdout, Line("Processing image")) ELSE stdout
            /\ cpc' = "extract"
            /\ UNCHANGED <<stderr, exit_code>>
    /\ UNCHANGED <<argv, args, image_file, cli_text, cli_confidence, out_file>>
    /\ UNCHANGED <<coreVars, serverVars>>

\* lines 59-64: text = extract_text(args.image_path)
CliExtract ==
    /\ cpc = "extract"
    /\ IF ImageOpen(image_file).ok
       THEN /\ \E t \in CliTexts : cli_text' = Returned(t)
            /\ stdout' = IF args.verbose THEN Append(stdout, Line("Text extraction completed")) ELSE stdout
            /\ cpc' = IF args.confidence \/ args.verbose THEN "confidence" ELSE "output"
       ELSE /\ cli_text' = ExtractTextExcept(ImageOpen(image_file).exc)
            /\ cpc' = "except"
            /\ UNCHANGED stdout
    /\ UNCHANGED <<argv, args, image_file, cli_confidence, stderr, out_file, exit_code>>
    /\ UNCHANGED <<coreVars, serverVars>>

\* lines 66-86: confidence_info = get_text_confidence(args.image_path)
CliConfidence ==
    /\ cpc = "confidence"
    /\ \E info \in CliReports :
        /\ cli_confidence' = info
        /\ stdout' = IF HasError(info) THEN stdout ELSE stdout \o QualityBlock(info)
    /\ cpc' = "output"
    /\ UNCHANGED <<argv, args, image_file, cli_text, stderr, out_file, exit_code>>
    /\ UNCHANGED <<coreVars, serverVars>>

\* lines 88-107: write the text to args.output or print it
CliOutput ==
    /\ cpc = "output"
    /\ IF args.output # ""
       THEN IF Writable(args.output)
            THEN /\ out_file' = WriteText(cli_text.value)
                 /\ stdout' = Append(stdout, Line("Text saved to"))
                 /\ Exit(0)
                 /\ UNCHANGED stderr
            ELSE /\ stderr' = Append(stderr, "Error saving to file")
                 /\ Exit(1)
                 /\ UNCHANGED <<stdout, out_file>>
       ELSE /\ stdout' = (IF args.verbose \/ args.confidence
                          THEN stdout \o <<Line("Extracted text:"), Line("----")>> ELSE stdout)
                         \o <<cli_text.value>>
            /\ Exit(0)
            /\ UNCHANGED <<stderr, out_file>>
    /\ UNCHANGED <<argv, args, image_file, cli_text, cli_confidence>>
    /\ UNCHANGED <<coreVars, serverVars>>

\* lines 109-111: the except clause around the processing
CliExcept ==
    /\ cpc = "except"
    /\ stderr' = Append(stderr, ProcessingError(cli_text.exc).stderr)
    /\ Exit(ProcessingError(cli_text.exc).code)
    /\ UNCHANGED <<argv, args, image_file, cli_text, cli_confidence, stdout, out_file>>
    /\ UNCHANGED <<coreVars, serverVars>>

CliIdle ==
    /\ cpc = "start"
    /\ argv = "ok"
    /\ args = NoArgs
    /\ image_file = "image"
    /\ cli_text = NoReturn
    /\ cli_confidence = [none |-> TRUE]
    /\ stdout = <<>>
    /\ stderr = <<>>
    /\ out_file = NoFile
    /\ exit_code = -1

----------------------------------------------------------------------------
(* The caller takes the outcome; the next call starts from fresh locals. *)

Init ==
    /\ pc = "idle"
    /\ fn = "none"
    /\ path = "image"
    /\ results = <<>>
    /\ attempt = <<>>
    /\ engineCalls = 0
    /\ pending = NoException
    /\ data = [conf |-> <<>>, text |-> <<>>]
    /\ best_method = "none"
    /\ ret = NoReturn
    /\ decoded = NoImage
    /\ original_img = NoImage
    /\ seen = <<>>
    /\ engine_input = <<>>
    /\ ServerIdle
    /\ CliIdle

Return ==
    /\ pc = "done"
    /\ pc' = "idle"
    /\ fn' = "none"
    /\ path' = "image"
    /\ results' = <<>>
    /\ attempt' = <<>>
    /\ engineCalls' = 0
    /\ pending' = NoException
    /\ data' = [conf |-> <<>>, text |-> <<>>]
    /\ best_method' = "none"
    /\ ret' = NoReturn
    /\ decoded' = NoImage
    /\ original_img' = NoImage
    /\ seen' = <<>>
    /\ engine_input' = <<>>
    /\ UNCHANGED appVars

Next ==
    \/ CallExtractText
    \/ ExtractOpen
    \/ Method1
    \/ Method2
    \/ Method3
    \/ Method4
    \/ ExtractSelect
    \/ ExtractExcept
    \/ CallGetTextConfidence
    \/ ConfOpen
    \/ ConfEnhance
    \/ ConfImageToData
    \/ ConfCompute
    \/ ConfExcept
    \/ Return

Spec == Init /\ [][Next]_vars

ServerNext ==
    \/ \E r \in Reqs : Upload(r)
    \/ \E r \in Reqs : MkTemp(r)
    \/ \E r \in Reqs : Save(r)
    \/ \E r \in Reqs : Extract(r)
    \/ \E r \in Reqs : Confidence(r)
    \/ \E r \in Reqs : Remove(r)
    \/ \E r \in Reqs : Except(r)
    \/ \E r \in Reqs : Unhandled(r)

CliNext ==
    \/ CliParse
    \/ CliCheck
    \/ CliExtract
    \/ CliConfidence
    \/ CliOutput
    \/ CliExcept

\* one run of the command-line tool
CliSpec == Init /\ [][CliNext]_vars

\* the handler alone
ServerSpec == Init /\ [][ServerNext]_vars

\* the handler under a threaded server: the thread of every request keeps running
ServerFairSpec == ServerSpec /\ \A r \in Reqs : WF_vars(Handle(r))

----------------------------------------------------------------------------
(* Properties of extract_text *)

ExtractDone == fn = "extract_text" /\ pc = "done"

Decoded == ImageOpen(path).ok

RaisedKinds == {"transform_raised", "engine_raised"}

SomeRaised == \E i \in 1..Len(attempt) : attempt[i] \in RaisedKinds

AllRaised == Len(attempt) = NumMethods /\ \A i \in 1..Len(attempt) : attempt[i] \in RaisedKinds

SomeCompleted == \E i \in 1..Len(attempt) : attempt[i] \notin RaisedKinds

NoneEmpty == \A i \in 1..Len(attempt) : attempt[i] # "empty"

NoneText == \A i \in 1..Len(attempt) : attempt[i] # "text"

ProducedTexts == {results[i][2] : i \in 1..Len(results)}

IsLongestProduced(v) == v \in ProducedTexts /\ \A t \in ProducedTexts : Len(t) <= Len(v)

MethodIndex(name) == CHOOSE i \in 1..NumMethods : MethodNames[i] = name

\* C1: when the image decodes and all four strategies raise, extract_text
\* raises an error whose message contains "Failed to extract text" and
\* returns no value.
C1_TotalFailureRaises ==
    (ExtractDone /\ Decoded /\ AllRaised) =>
        /\ ret.kind = "raise"
        /\ \E i \in 1..Len(ret.exc.msg) : ret.exc.msg[i] = FailedPrefix

\* C2: whenever some strategy produced non-empty trimmed text, the returned
\* value is one of the produced texts and no produced text is longer.
C2_LongestWins ==
    (ExtractDone /\ \E i \in 1..Len(attempt) : attempt[i] = "text") =>
        /\ ret.kind = "return"
        /\ results # <<>>
        /\ IsLongestProduced(ret.value)

C2_Witness ==
    /\ ExtractDone
    /\ Len(results) >= 3
    /\ Len(results[1][2]) < Len(results[2][2])
    /\ Len(results[3][2]) < Len(results[2][2])
    /\ ret = Returned(results[2][2])

\* C3: among the strategies whose texts share the maximal length, the one
\* declared earliest (Enhanced, Preprocessed, Scaled, SingleWord) wins.
C3_TieBreakEarliest ==
    (ExtractDone /\ results # <<>>) =>
        \E i \in 1..Len(results) :
            /\ results[i][1] = best_method
            /\ results[i][2] = ret.value
            /\ \A j \in 1..Len(results) :
                /\ Len(results[j][2]) <= Len(results[i][2])
                /\ MethodIndex(results[j][1]) < MethodIndex(results[i][1])
                     => Len(results[j][2]) < Len(results[i][2])

C3_Witness ==
    /\ ExtractDone
    /\ \E i, j \in 1..Len(results) :
        /\ i < j
        /\ Len(results[i][2]) = Len(results[j][2])
        /\ results[i][2] # results[j][2]
        /\ \A k \in 1..Len(results) : Len(results[k][2]) <= Len(results[i][2])
        /\ i > 1
        /\ best_method = results[i][1]
        /\ ret = Returned(results[i][2])

\* C4: when some but not all strategies raise and every other strategy
\* returns non-empty text, extract_text returns the longest text of the
\* strategies that succeeded and raises nothing.
C4_PartialFailure ==
    (ExtractDone /\ Decoded /\ SomeRaised /\ ~AllRaised /\ NoneEmpty) =>
        /\ ret.kind = "return"
        /\ IsLongestProduced(ret.value)
        /\ Len(results) = Cardinality({i \in 1..Len(attempt) : attempt[i] = "text"})
        /\ Len(attempt) = NumMethods

C4_Witness ==
    /\ ExtractDone
    /\ attempt = <<"engine_raised", "text", "transform_raised", "text">>
    /\ Len(results[1][2]) < Len(results[2][2])
    /\ ret = Returned(results[2][2])

\* C5: when the image decodes and every strategy completes with text that is
\* empty after trimming, extract_text returns the empty string.
C5_EmptyIsNotAnError ==
    (ExtractDone /\ Decoded /\ Len(attempt) = NumMethods
        /\ \A i \in 1..Len(attempt) : attempt[i] = "empty") =>
        ret = Returned(<<>>)

C5_Witness ==
    /\ ExtractDone
    /\ attempt = <<"empty", "empty", "empty", "empty">>
    /\ engineCalls = NumMethods
    /\ ret = Returned(<<>>)

\* C6: on a decodable image, if at least one strategy completes without
\* raising the call returns a string; when some strategies raise and all the
\* others return empty text, that string is empty.
C6_FailsOnlyWhenAllFail ==
    (ExtractDone /\ Decoded /\ SomeCompleted) =>
        /\ ret.kind = "return"
        /\ ret.value \in ProducedTexts \cup {<<>>}
        /\ (SomeRaised /\ NoneText) => ret.value = <<>>

C6_Witness ==
    /\ ExtractDone
    /\ SomeRaised /\ SomeCompleted /\ NoneText
    /\ ret = Returned(<<>>)

\* C7: when the path is missing or is not an image, extract_text raises and
\* no strategy runs: the engine is called zero times.
C7_DecodeFailureIsFatal ==
    (fn = "extract_text" /\ ~Decoded) =>
        /\ engineCalls = 0
        /\ attempt = <<>>
        /\ pc \notin {"method1", "method2", "method3", "method4", "select"}
        /\ pc = "done" => ret.kind = "raise"

C7_Witness ==
    /\ ExtractDone
    /\ path = "invalid"
    /\ ret.kind = "raise"
    /\ engineCalls = 0

\* C8 as stated: for an input that cannot be decoded, both extract_text and
\* get_text_confidence fail with the decode layer's own error.
C8_DecodeErrorUnchanged ==
    (pc = "done" /\ ~Decoded) =>
        /\ ret.kind = "raise"
        /\ ret.exc = ImageOpen(path).exc

\* C8 amended: for an input that cannot be decoded, extract_text raises a
\* generic Exception whose message is "Failed to extract text: " followed by
\* the decode error's message, and get_text_confidence raises nothing and
\* returns a report whose only key is 'error', holding the decode error's
\* message.
C8_DecodeErrorReported ==
    (pc = "done" /\ ~Decoded) =>
        /\ fn = "extract_text" =>
            /\ ret.kind = "raise"
            /\ ret.exc.type = "Exception"
            /\ ret.exc.msg = <<FailedPrefix>> \o ImageOpen(path).exc.msg
        /\ fn = "get_text_confidence" =>
            /\ ret.kind = "return"
            /\ DOMAIN ret.value = {"error"}
            /\ ret.value.error = ImageOpen(path).exc.msg

C8_Witness ==
    /\ ExtractDone
    /\ path = "missing"
    /\ ret.kind = "raise"
    /\ ret.exc.type = "Exception"
    /\ ret.exc.msg = <<FailedPrefix, "No such file or directory">>

----------------------------------------------------------------------------
(* Properties of get_text_confidence *)

ConfDone == fn = "get_text_confidence" /\ pc = "done"

MetricKeys == {"average_confidence", "word_count", "low_confidence_words"}

\* C9: get_text_confidence never raises: when the decode step, the transform,
\* the engine call (or the parsing of its reply) fails, it returns a report
\* with the key 'error' and none of the three metric keys.
C9_ConfidenceNeverRaises ==
    ConfDone =>
        /\ ret.kind = "return"
        /\ pending # NoException =>
            /\ "error" \in DOMAIN ret.value
            /\ DOMAIN ret.value \cap MetricKeys = {}

C9_Witness ==
    /\ ConfDone
    /\ pending = EngineError
    /\ ret = Returned([error |-> <<"Tesseract failed">>])

\* C10: for confidences [95, 87, 92, 78, 0, 88] with texts
\* ['Hello', 'World', 'Test', 'Text', '', 'OCR'] the report has
\* average_confidence = 88.0, word_count = 5 and low_confidence_words = 1.
C10_RegressionCase ==
    (ConfDone /\ data = RegressionData) =>
        /\ ret.kind = "return"
        /\ DOMAIN ret.value = MetricKeys
        /\ ret.value.average_confidence.num = 88 * ret.value.average_confidence.den
        /\ ret.value.word_count = 5
        /\ ret.value.low_confidence_words = 1

\* the report came from the normal path of get_text_confidence
ReportDone == ConfDone /\ pending = NoException

TokenIdx == 1..Len(data.conf)

PositiveIdx == {i \in TokenIdx : PyInt(data.conf[i]) > 0}

WordIdx == {i \in 1..Len(data.text) : ~IsBlank(data.text[i])}

RECURSIVE SumConfOver(_)
SumConfOver(S) ==
    IF S = {} THEN 0
    ELSE LET i == CHOOSE j \in S : TRUE IN PyInt(data.conf[i]) + SumConfOver(S \ {i})

\* C11: average_confidence is the arithmetic mean of exactly the token
\* confidences that are > 0; tokens with confidence <= 0 enter neither the
\* numerator nor the denominator, and the average is 0 (no division by zero)
\* when no token has positive confidence.
C11_MeanOfPositiveConfidences ==
    ReportDone =>
        LET avg == ret.value.average_confidence IN
        /\ avg.den > 0
        /\ IF PositiveIdx = {} THEN avg.num = 0
           ELSE avg.num * Cardinality(PositiveIdx) = SumConfOver(PositiveIdx) * avg.den

C11_Witness ==
    /\ ReportDone
    /\ data.conf = << <<"-", "1">>, <<"9", "5">> >>
    /\ ret.value.average_confidence = [num |-> 95, den |-> 1]

\* C12: word_count is the number of tokens whose text is non-empty after
\* trimming, over the unfiltered token list: a worded token with confidence
\* <= 0 counts, a token with positive confidence and empty text does not.
C12_WordCountUnfiltered ==
    ReportDone => ret.value.word_count = Cardinality(WordIdx)

C12_Witness ==
    /\ ReportDone
    /\ data = [conf |-> << <<"0">>, <<"9", "5">> >>, text |-> << <<"a">>, <<" ">> >>]
    /\ ret.value.word_count = 1

C14_WordCountExcludesNonPositive ==
    ReportDone => ret.value.word_count = Cardinality(WordIdx \cap PositiveIdx)

\* C14 amended: tokens with non-positive confidence are excluded from the
\* mean and from the low-confidence count but not from the word count:
\* word_count also counts every worded token whose confidence is <= 0.
C14_NonPositiveExcludedFromMeanOnly ==
    ReportDone =>
        /\ ret.value.average_confidence.den =
                (IF PositiveIdx = {} THEN 1 ELSE Cardinality(PositiveIdx))
        /\ ret.value.low_confidence_words <= Cardinality(PositiveIdx)
        /\ ret.value.word_count =
                Cardinality(WordIdx \cap PositiveIdx) + Cardinality(WordIdx \ PositiveIdx)

C14_Witness ==
    /\ ReportDone
    /\ data = [conf |-> << <<"-", "1">> >>, text |-> << <<"a">> >>]
    /\ ret.value.word_count = 1
    /\ ret.value.low_confidence_words = 0
    /\ ret.value.average_confidence.num = 0

----------------------------------------------------------------------------
(* Properties of the strategy sequence *)

MethodPcs == {MethodPc(i) : i \in 1..NumMethods}

\* C19: once the image has decoded, the four strategies run exactly once
\* each, one after another in the declared order, whatever the earlier ones
\* did, and the winner is chosen only after the fourth has finished.
C19_AllStrategiesInOrder ==
    [][fn = "extract_text" =>
        /\ \A i \in 1..NumMethods :
            pc = MethodPc(i) =>
                /\ Len(attempt) = i - 1
                /\ pc' = MethodPc(i + 1)
                /\ Len(attempt') = i
                /\ SubSeq(attempt', 1, i - 1) = attempt
                /\ results' # results =>
                        results' = Append(results, <<MethodNames[i], results'[Len(results')][2]>>)
        /\ pc' \in MethodPcs => pc' = MethodPc(1) \/ pc \in MethodPcs
        /\ (Decoded /\ ret' # ret /\ pc' = "done") => pc = "select" /\ Len(attempt) = NumMethods
      ]_vars

C19_Witness ==
    /\ ExtractDone
    /\ attempt = <<"transform_raised", "empty", "engine_raised", "text">>
    /\ engineCalls = 3
    /\ best_method = "PSM 8"

\* C20: every entry of results is a (method name, text) pair whose text is
\* non-empty with no leading or trailing whitespace; a strategy that raises or
\* whose trimmed text is empty adds no entry, each strategy adds at most one,
\* and the entries are in declared strategy order.
C20_ResultsWellFormed ==
    fn = "extract_text" =>
        /\ \A i \in 1..Len(results) :
            /\ results[i][1] \in {MethodNames[k] : k \in 1..Len(attempt)}
            /\ results[i][2] # <<>>
            /\ results[i][2][1] \notin Whitespace
            /\ results[i][2][Len(results[i][2])] \notin Whitespace
            /\ attempt[MethodIndex(results[i][1])] = "text"
        /\ \A i, j \in 1..Len(results) :
            i < j => MethodIndex(results[i][1]) < MethodIndex(results[j][1])
        /\ Len(results) = Cardinality({k \in 1..Len(attempt) : attempt[k] = "text"})

C20_Witness ==
    /\ fn = "extract_text" /\ pc = "select"
    /\ attempt = <<"empty", "text", "engine_raised", "text">>
    /\ Len(results) = 2
    /\ results[1][1] = "OpenCV Preprocessed"
    /\ results[2][1] = "PSM 8"

----------------------------------------------------------------------------
(* Properties of the image transforms *)

\* the call sites of enhance_image_pil whose argument is (a copy of) the decoded image
EnhancedOriginal == {1, 4}

\* strategy i got as far as handing an image to the engine
ReachedEngine(i) == i <= Len(engine_input) /\ engine_input[i] # NoImage

\* C21: during an extraction the object bound to original_img always holds
\* the image as it was decoded, and every strategy, whatever the earlier ones
\* did, found it in that state: the transforms work on a copy or produce a
\* new image.
C21_OriginalNeverModified ==
    (fn = "extract_text" /\ decoded # NoImage) =>
        /\ original_img = decoded
        /\ Len(seen) = Len(attempt)
        /\ \A i \in 1..Len(seen) : seen[i] = decoded

C21_Witness ==
    /\ ExtractDone
    /\ attempt = <<"text", "transform_raised", "engine_raised", "text">>
    /\ decoded.mode = "RGB"
    /\ engine_input[1] # decoded /\ engine_input[3].size # decoded.size
    /\ seen[4] = decoded

\* C22: whatever the colour mode of its input, the image enhance_image_pil
\* returns is in mode 'L'; where its input is the decoded image (strategies 1
\* and 4, and get_text_confidence) the returned image has the decoded image's
\* width and height.
C22_EnhanceGrayscaleSameSize ==
    /\ fn = "extract_text" =>
            \A i \in {1, 3, 4} :
                ReachedEngine(i) =>
                    /\ engine_input[i].mode = "L"
                    /\ i \in EnhancedOriginal => engine_input[i].size = decoded.size
    /\ (fn = "get_text_confidence" /\ engine_input # <<>>) =>
            /\ engine_input[1].mode = "L"
            /\ engine_input[1].size = decoded.size

C22_Witness ==
    /\ fn = "get_text_confidence" /\ pc = "image_to_data"
    /\ decoded.mode = "RGBA" /\ decoded.size = <<1, MaxSide>>
    /\ engine_input[1].mode = "L" /\ engine_input[1].size = <<1, MaxSide>>
    /\ engine_input[1].ops = <<"convert", "contrast", "sharpness", "unsharp">>

\* C23: the image the Scaled strategy hands to the engine is exactly twice
\* as wide and twice as high as the decoded image; the same upscale with
\* factor 1 leaves the dimensions as they are.
C23_ScaledDoublesBothSides ==
    (fn = "extract_text" /\ ReachedEngine(3)) =>
        /\ engine_input[3].size = <<2 * decoded.size[1], 2 * decoded.size[2]>>
        /\ Upscale(engine_input[3], 1).result.size = engine_input[3].size
        /\ Upscale(decoded, 1).result.size = decoded.size

C23_Witness ==
    /\ fn = "extract_text" /\ pc = "method4"
    /\ attempt[3] = "text"
    /\ decoded.size = <<MaxSide, 1>>
    /\ engine_input[3].size = <<2 * MaxSide, 2>>

----------------------------------------------------------------------------
(* Properties of POST /upload *)

SrvDone(r) == spc[r] = "done"

\* the temporary files request r created and that still exist
OwnFiles(r) == {n \in DOMAIN tmpfs : tmpfs[n].owner = r}

CreatedFile(r) == upload_path[r] # 0

ValidRequest(r) == request[r].has_file /\ request[r].filename # ""

IsErrorBody(resp) == "error" \in DOMAIN resp.body

\* request r's handler returns, or is left by an exception, in this step
Finishing(r) == spc[r] # "done" /\ spc'[r] = "done"

\* C15: for every request that created a temporary file, the file is gone
\* when the response is returned, on the 200 path, on the 500 path and on
\* every other exit of the handler.
C15_TempFileRemoved ==
    \A r \in Reqs : SrvDone(r) => OwnFiles(r) = {}

\* C16 as stated: no 'file' field or an empty filename gives 400 with 'error';
\* extract_text raising gives 500 with 'error'; every other request gets 200
\* with exactly text, confidence and filename.
C16_StatusMapping ==
    [][\A r \in Reqs : Finishing(r) =>
        IF ~ValidRequest(r)'
        THEN response'[r].status = 400 /\ IsErrorBody(response'[r])
        ELSE IF srv_text[r].kind = "raise"
        THEN response'[r].status = 500 /\ IsErrorBody(response'[r])
        ELSE /\ response'[r].status = 200
             /\ DOMAIN response'[r].body = {"text", "confidence", "filename"}
             /\ response'[r].body.filename = request[r].filename
             /\ response'[r].body.text = srv_text[r].value
      ]_vars

\* C16 amended: no 'file' field or an empty filename gives 400 with 'error';
\* when extract_text raises, or os.remove fails after a successful
\* extraction, and the handler's clean-up succeeds, the answer is 500 with an
\* 'error' starting "Failed to extract text: "; when the temporary file
\* cannot be created or saved, or the clean-up itself fails, the exception
\* leaves the handler and the framework answers 500 without an 'error'
\* field; otherwise the answer is 200 with exactly text, confidence and
\* filename, filename being the uploaded name and text extract_text's result.
C16_StatusMappingWithFileErrors ==
    [][\A r \in Reqs : Finishing(r) =>
        IF ~ValidRequest(r)'
        THEN response'[r].status = 400 /\ DOMAIN response'[r].body = {"error"}
        ELSE IF srv_text[r].kind = "return" /\ srv_exc[r] = NoException
        THEN /\ response'[r].status = 200
             /\ DOMAIN response'[r].body = {"text", "confidence", "filename"}
             /\ response'[r].body.filename = request[r].filename
             /\ response'[r].body.text = srv_text[r].value
             /\ response'[r].body.confidence = srv_confidence[r]
        ELSE /\ response'[r].status = 500
             /\ IF ~CreatedFile(r) \/ OwnFiles(r)' # {}
                THEN response'[r] = InternalServerError
                ELSE /\ DOMAIN response'[r].body = {"error"}
                     /\ response'[r].body.error[1] = FailedPrefix
                     /\ srv_text[r].kind = "raise" \/ srv_exc[r] = OSError
      ]_vars

C16_Witness ==
    /\ SrvDone(1) /\ SrvDone(2)
    /\ response[1].status = 200
    /\ response[1].body.text = <<"t", 1>>
    /\ response[1].body.filename = "scan.png"
    /\ response[2].status = 500
    /\ request[2].content = Garbage
    /\ IsErrorBody(response[2])
    /\ tmpfs = <<>>

\* the positions of upload() at which the request's temporary file is in use
UsingFile == {"save", "extract", "confidence", "remove", "except"}

Isolated ==
    /\ \A r \in Reqs : spc[r] \in UsingFile =>
        /\ upload_path[r] \in DOMAIN tmpfs
        /\ tmpfs[upload_path[r]].owner = r
        /\ spc[r] # "save" => tmpfs[upload_path[r]].content = request[r].content
    /\ \A r1, r2 \in Reqs :
        (r1 # r2 /\ spc[r1] \in UsingFile /\ spc[r2] \in UsingFile)
            => upload_path[r1] # upload_path[r2]
    /\ \A r \in Reqs :
        /\ srv_text[r].kind = "return" => srv_text[r].value = TextOf(ImageOf(r))
        /\ (SrvDone(r) /\ response[r].status = 200) => response[r].body.text = TextOf(ImageOf(r))
        /\ SrvDone(r) => response[r] # NoResponse

\* a file is written or removed only by a step of the request that created it
OwnerOnly ==
    \A n \in DOMAIN tmpfs :
        (n \notin DOMAIN tmpfs' \/ tmpfs'[n] # tmpfs[n]) => spc'[tmpfs[n].owner] # spc[tmpfs[n].owner]

\* C18: interleaved /upload requests each use their own temporary file: no
\* request reads, overwrites or removes another's file, each response's text
\* comes from the request's own image, and every request that arrived
\* completes with a response.
C18_RequestsIndependent ==
    /\ []Isolated
    /\ [][OwnerOnly]_vars
    /\ \A r \in Reqs : (spc[r] # "idle") ~> (SrvDone(r) /\ response[r] # NoResponse)

C18_Witness ==
    /\ spc[1] = "confidence" /\ spc[2] = "extract"
    /\ upload_path[1] # upload_path[2]
    /\ tmpfs[upload_path[1]].content = ImageOf(1)
    /\ tmpfs[upload_path[2]].content = ImageOf(2)
    /\ srv_text[1] = Returned(<<"t", 1>>)

\* upload() holds a text and an error-marked confidence report for request r
TextWithErrorReport(r) == srv_text[r].kind = "return" /\ "error" \in DOMAIN srv_confidence[r]

\* C27 as claimed: a request whose extract_text call returned and whose
\* confidence report is error-marked is answered with 200, the report in the
\* body's 'confidence' field, and its temporary file removed.
C27_ReportErrorStill200 ==
    [][\A r \in Reqs :
        (Finishing(r) /\ TextWithErrorReport(r)) =>
            /\ response'[r].status = 200
            /\ response'[r].body.confidence = srv_confidence[r]
            /\ \A n \in DOMAIN tmpfs' : tmpfs'[n].owner # r
      ]_vars

\* C27: an error-marked confidence report never fails an upload by itself:
\* the handler goes on to remove the temporary file whatever the report, and
\* when that removal succeeds the response is 200 with the text, the
\* error-marked report in 'confidence' and the file name, and the file is
\* gone; only a failing os.remove turns the response into a 500.
C27_ReportErrorDoesNotFailUpload ==
    [][\A r \in Reqs :
        /\ (spc[r] = "confidence" /\ spc'[r] # spc[r]) => spc'[r] = "remove"
        /\ (Finishing(r) /\ TextWithErrorReport(r)) =>
            IF srv_exc[r] = NoException
            THEN /\ spc[r] = "remove"
                 /\ response'[r] = [status |-> 200,
                                     body |-> [text |-> srv_text[r].value,
                                               confidence |-> srv_confidence[r],
                                               filename |-> request[r].filename]]
                 /\ \A n \in DOMAIN tmpfs' : tmpfs'[n].owner # r
            ELSE /\ srv_exc[r] = OSError
                 /\ response'[r].status = 500
      ]_vars

C27_Witness ==
    /\ SrvDone(1)
    /\ response[1].status = 200
    /\ response[1].body.text = <<"t", 1>>
    /\ "error" \in DOMAIN response[1].body.confidence
    /\ response[1].body.confidence = EngineErrorReport
    /\ OwnFiles(1) = {}

----------------------------------------------------------------------------
(* Properties of the command-line tool *)

CliExited == cpc = "exited"

\* a processing or I/O error: the image is missing, unreadable or not
\* decodable (extract_text raises), or the output file cannot be written
CliFailure ==
    \/ image_file # "image"
    \/ args.output # "" /\ ~Writable(args.output)

\* C17: the process exits with 0 when extraction and output succeed, with 1
\* on every processing or I/O error (image missing, image unreadable,
\* extract_text raising, output file not writable) and with 2 when argument
\* parsing fails; no failure path exits with 0.
C17_ExitCodes ==
    CliExited =>
        /\ exit_code \in {0, 1, 2}
        /\ exit_code = 2 <=> argv = "bad"
        /\ exit_code = 1 <=> (argv = "ok" /\ CliFailure)
        /\ (argv = "ok" /\ image_file = "invalid") => cli_text.kind = "raise"
        /\ (argv = "ok" /\ exit_code = 0) =>
            /\ cli_text.kind = "return"
            /\ IF args.output = "" THEN stdout[Len(stdout)] = cli_text.value
               ELSE out_file = [exists |-> TRUE, content |-> cli_text.value]

C17_Witness ==
    /\ CliExited
    /\ image_file = "invalid"
    /\ cli_text.kind = "raise"
    /\ stderr = <<"Error processing image">>
    /\ exit_code = 1


\* the lines printed so far
Lines(out) == {out[i] : i \in 1..Len(out)}

Tiers == {Line("Quality: High"), Line("Quality: Medium"), Line("Quality: Low")}

BlockPrinted == Line("OCR Quality Information") \in Lines(stdout)

ConfidenceCalled == "none" \notin DOMAIN cli_confidence

ErrorMarked == ConfidenceCalled /\ "error" \in DOMAIN cli_confidence

\* avg_conf as main() reads it
ReportedAverage == Get(cli_confidence, "average_confidence", [num |-> 0, den |-> 1])

\* C24: whenever the quality block is printed exactly one tier line is
\* printed: High when the average is >= 80, Medium when it is in [60, 80),
\* Low when it is < 60, whatever the number of low-confidence words.
C24_QualityTier ==
    BlockPrinted =>
        LET avg == ReportedAverage IN
        /\ Cardinality({i \in 1..Len(stdout) : stdout[i] \in Tiers}) = 1
        /\ Line("Quality: High") \in Lines(stdout) <=> avg.num >= 80 * avg.den
        /\ Line("Quality: Medium") \in Lines(stdout) <=>
                (avg.num >= 60 * avg.den /\ avg.num < 80 * avg.den)
        /\ Line("Quality: Low") \in Lines(stdout) <=> avg.num < 60 * avg.den

C24_Witness ==
    /\ CliExited
    /\ cli_confidence = Report(HighWithLowWordData)
    /\ cli_confidence.low_confidence_words = 1
    /\ Line("Low confidence words") \in Lines(stdout)
    /\ Line("Quality: High") \in Lines(stdout)

\* C25: with --output, a successful extraction writes the text to the file,
\* prints no result text on stdout and exits with 0; when the file cannot be
\* written 'Error saving to file' goes to stderr and the exit code is 1; when
\* extraction raises, the output file is neither created nor written.
C25_OutputFile ==
    (CliExited /\ argv = "ok") =>
        /\ (cli_text.kind = "return" /\ args.output # "" /\ Writable(args.output)) =>
                /\ out_file = [exists |-> TRUE, content |-> cli_text.value]
                /\ \A i \in 1..Len(stdout) : stdout[i] # cli_text.value
                /\ Line("Extracted text:") \notin Lines(stdout)
                /\ stdout[Len(stdout)] = Line("Text saved to")
                /\ stderr = <<>>
                /\ exit_code = 0
        /\ (cli_text.kind = "return" /\ args.output # "" /\ ~Writable(args.output)) =>
                /\ stderr = <<"Error saving to file">>
                /\ out_file = NoFile
                /\ exit_code = 1
        /\ cli_text.kind # "return" =>
                /\ out_file = NoFile
                /\ exit_code = 1

C25_Witness ==
    /\ CliExited
    /\ args.output = "out.txt" /\ args.verbose
    /\ cli_text = Returned(<<"a">>)
    /\ out_file = [exists |-> TRUE, content |-> <<"a">>]
    /\ exit_code = 0

\* C28: get_text_confidence is called only with --confidence or --verbose
\* and only after extract_text has returned; when its report carries 'error'
\* the quality block is not printed, and the text is still printed or saved
\* and the exit code is still 0.
C28_ErrorReportOmitsBlock ==
    /\ ConfidenceCalled => ((args.confidence \/ args.verbose) /\ cli_text.kind = "return")
    /\ ErrorMarked => ~BlockPrinted
    /\ (CliExited /\ ErrorMarked) =>
            IF args.output = "" THEN stdout[Len(stdout)] = cli_text.value /\ exit_code = 0
            ELSE Writable(args.output) =>
                    (out_file = [exists |-> TRUE, content |-> cli_text.value] /\ exit_code = 0)

====
